---- MODULE Spec2Model ----
(***************************************************************************)
(* Trip-tracking engine of the GNSS odometer (src/gnss_odometer/           *)
(* gnss_data.cpp): the file-scope state of the module, one action per      *)
(* public operation, and the properties of the specification stated over   *)
(* them.                                                                   *)
(*                                                                         *)
(* Units.  Coordinates are points of one meridian (longitude 0), the       *)
(* latitude counted in decimetres of arc, so that the Haversine distance   *)
(* of two points is the absolute difference of their latitudes, in         *)
(* decimetres.  Distances are decimetres, speeds metres per second, times  *)
(* whole seconds of the wall clock.  Speeds in km/h are kept in tenths     *)
(* (speed * 36).                                                           *)
(***************************************************************************)
EXTENDS Integers, Sequences, FiniteSets, TLC

\* ---------------------------------------------------------------- constants
FIX_NONE == 0
FIX_2D == 1
FIX_3D == 2

SEGMENT_TIME_1MIN == 60
SEGMENT_TIME_5MIN == 300
SEGMENT_TIME_10MIN == 600
SEGMENT_TIME_30MIN == 1800
SEGMENT_TIME_CUSTOM == 1801

\* if (distance > 0.5): 0.5 m in decimetres
NoiseFloor == 5

\* ------------------------------------------------------------------- bounds
\* wall clock at start-up, and how far it runs
T0 == 2000
MaxElapsed == 60
\* longest segment list the manual close may build
MaxSegments == 2
\* file runs close segments by hand while the list is shorter than this
MaxClosed == 3
\* segment snapshot files the card holds before fopen fails
MaxFiles == 1
\* raw receiver fix-mode codes 0..MaxFixMode
MaxFixMode == 5
\* polls stop once the trip total passes this (decimetres)
MaxDistance == 20000

\* if (g_acceleration_history.size() > 50)
HistoryCap == 50

TickSteps == {60}
SegTickSteps == {30, 60}
Lats == {0, 9, 5009}
Speeds == {0, 14}
SegOptions == {SEGMENT_TIME_1MIN, SEGMENT_TIME_CUSTOM}
CustomTimes == {30}
\* acceleration runs: a fix every 10 s for half a minute, at rest and at
\* 21.6, 61.2 and 111.6 km/h
AccElapsed == 30
AccTickSteps == {10}
AccSpeeds == {0, 6, 17, 31}
\* manual 0-30/0-50 runs: the clock moves in steps of 35 s up to ManElapsed,
\* fixes come at 28.8, 32.4 and 50.4 km/h
ManElapsed == 70
ManTickSteps == {35}
ManSpeeds == {8, 9, 14}
\* acceleration history: up to HistInserts records are saved, one a second;
\* restarts, recordings and a card that cannot be written occur in the first
\* HistEarly seconds
HistInserts == 52
HistEarly == 3

\* the samples the receiver delivers: a position solution (code 3) anywhere on
\* the meridian, and every code with the position fields zero
Samples ==
  { [fixmode |-> 3, latitude |-> la, longitude |-> 0, speed |-> sp] :
      la \in Lats, sp \in Speeds }
  \cup { [fixmode |-> m, latitude |-> 0, longitude |-> 0, speed |-> 0] :
      m \in 0..MaxFixMode }

\* what one read() of the device gives: an error, a short read, or a sample
PollInputs ==
  { [rd |-> r, pos |-> [fixmode |-> 0, latitude |-> 0, longitude |-> 0,
                        speed |-> 0]] : r \in {"error", "short"} }
  \cup { [rd |-> "ok", pos |-> p] : p \in Samples }

\* the polls of the segmentation runs: a fix at rest or moving on, or none
SegPollInputs ==
  { i \in PollInputs :
      /\ i.rd = "ok"
      /\ i.pos.fixmode \in {0, 3}
      /\ i.pos.latitude \in {0, 9}
      /\ i.pos.speed = 0 }

\* the polls of the acceleration runs: a fix at one place at some speed, or none
AccPollInputs ==
  { [rd |-> "ok", pos |-> [fixmode |-> 3, latitude |-> 0, longitude |-> 0,
                           speed |-> sp]] : sp \in AccSpeeds }
  \cup { [rd |-> "ok", pos |-> [fixmode |-> 0, latitude |-> 0, longitude |-> 0,
                                speed |-> 0]] }

VARIABLES
  g,          \* the file-scope variables of gnss_data.cpp, by name
  now,        \* wall clock, time(NULL)
  seg_files,  \* /sd/segments: file name (its time stamp) -> what was written
  accel_file, \* /sd/acceleration/accel_history.json
  call,       \* the last operation performed, its arguments and result
  obs,        \* what the receiver has delivered so far (history, not program state)
  seen,       \* when the fixes of a 0-100 run were delivered (history, as obs)
  app         \* the file-scope variables of spresense_main.cxx, by name

vars == <<g, now, seg_files, accel_file, call, obs, seen, app>>

\* --------------------------------------------------------------- data model
ZeroPoint ==
  [latitude |-> 0, longitude |-> 0, speed |-> 0, timestamp |-> 0,
   fix_type |-> FIX_NONE]

ZeroTrip ==
  [total_distance |-> 0, max_speed |-> 0, avg_speed |-> 0, duration |-> 0,
   start_time |-> 0, end_time |-> 0,
   has_0_100_time |-> FALSE, time_0_100 |-> 0,
   measuring_acceleration |-> FALSE, acceleration_start_time |-> 0,
   time_0_30 |-> 0, time_0_50 |-> 0,
   reached_30kmh |-> FALSE, reached_50kmh |-> FALSE,
   max_altitude |-> 0, min_altitude |-> 0,
   segment_count |-> 0, segments |-> <<>>]

GNSS_RATE_1HZ == 1000
GNSS_RATE_5HZ == 200
GNSS_RATE_10HZ == 100

\* the rates the program asks for: 1 Hz from gnss_thread, 5 Hz from the key
Rates == {GNSS_RATE_1HZ, GNSS_RATE_5HZ}

InitGlobals ==
  [g_fd |-> -1, g_rate |-> GNSS_RATE_1HZ,
   g_running |-> FALSE, g_recording |-> FALSE,
   g_last_point |-> ZeroPoint, g_current_point |-> ZeroPoint,
   g_has_last_point |-> FALSE,
   g_accel_start |-> FALSE, g_accel_start_time |-> 0,
   g_acceleration_history |-> <<>>,
   g_trip_data |-> ZeroTrip,
   g_track_points |-> <<>>,
   g_segment_settings |->
     [enabled |-> TRUE, option |-> SEGMENT_TIME_5MIN, custom_time_sec |-> 300],
   g_last_gps_time |-> 0, g_last_segment_time |-> 0,
   g_has_lost_fix |-> FALSE]

\* from_prev: how far an accepted sample lies from the fix accepted before it
\* (-1: there was none)
NoCall(name) ==
  [op |-> name, ret |-> TRUE, rd |-> "none", fixmode |-> 0,
   built |-> FALSE, new_point |-> ZeroPoint, from_prev |-> -1,
   fopen_ok |-> TRUE, arg |-> <<>>, result |-> <<>>]

\* the application's flag and lock as the loader leaves them
\* poll: where gnss_thread stands in a call of gnss_get_position that is split
\* at line 263: busy (the call has read its sample and stands before the
\* updates of segments.back()), the sample, had (the list was not empty when
\* the call began), checked (the call passed the test of line 263), raced (the
\* list was emptied before the call went on)
NoPoll ==
  [busy |-> FALSE, rd |-> "none",
   pos |-> [fixmode |-> 0, latitude |-> 0, longitude |-> 0, speed |-> 0],
   had |-> FALSE, checked |-> FALSE, raced |-> FALSE]

\* g_segment_index: the line of the segment settings screen that is selected
InitApp ==
  [g_running |-> TRUE, g_mutex |-> "unlocked", poll |-> NoPoll,
   g_segment_index |-> 0]

\* slow_at: when the first fix under 5 km/h of the recording came; fast_at:
\* when the first fix at 100 km/h or more after it came (-1: not yet)
\* man_at: when a manual measurement was asked for with a fix delivered and none
\* running (-1: none running); r30, r50: a fix at 30 / 50 km/h or more was
\* handed to gnss_check_acceleration_measurement since; m30: when the first of
\* 30 km/h came; ended: how the last measurement came to its end
NoneSeen ==
  [slow_at |-> -1, fast_at |-> -1,
   man_at |-> -1, r30 |-> FALSE, r50 |-> FALSE, m30 |-> -1, ended |-> "no"]

\* ------------------------------------------------------------ pure helpers
Abs(x) == IF x < 0 THEN -x ELSE x

Max(a, b) == IF a > b THEN a ELSE b

\* Haversine distance, on one meridian (see Units)
calculate_distance(lat1, lon1, lat2, lon2) == Abs(lat2 - lat1)

\* strftime "%Y-%m-%d %H:%M": the time to the minute
FormatMinute(t) == t \div 60

\* the switch without its "case 4" label
FixTypeOf_no4(fixmode) ==
  CASE fixmode = 1 -> FIX_NONE
    [] fixmode = 2 -> FIX_2D
    [] fixmode = 3 -> FIX_3D
    [] OTHER -> FIX_NONE

\* switch (posdat.receiver.pos_fixmode)
FixTypeOf(fixmode) ==
  CASE fixmode = 1 -> FIX_NONE
    [] fixmode = 2 -> FIX_2D
    [] fixmode = 3 -> FIX_3D
    [] fixmode = 4 -> FIX_3D
    [] OTHER -> FIX_NONE

\* the configured segment seconds
SegmentTime(st) ==
  IF st.g_segment_settings.option = SEGMENT_TIME_CUSTOM
    THEN st.g_segment_settings.custom_time_sec
    ELSE st.g_segment_settings.option

\* ------------------------------------------------------------------- device
\* a reset that empties the acceleration history as well
gnss_reset_trip_forgetting(st) ==
  [st EXCEPT
     !.g_trip_data = [@ EXCEPT
        !.total_distance = 0, !.max_speed = 0, !.avg_speed = 0,
        !.duration = 0, !.start_time = 0, !.end_time = 0,
        !.has_0_100_time = FALSE, !.time_0_100 = 0,
        !.max_altitude = 0, !.min_altitude = 0,
        !.segment_count = 0, !.segments = <<>>],
     !.g_acceleration_history = <<>>,
     !.g_last_segment_time = 0,
     !.g_last_gps_time = 0,
     !.g_has_lost_fix = FALSE,
     !.g_accel_start = FALSE,
     !.g_accel_start_time = 0]

\* gnss_reset_trip without segments.clear()
gnss_reset_trip_keepsegs(st) ==
  [st EXCEPT
     !.g_trip_data = [@ EXCEPT
        !.total_distance = 0, !.max_speed = 0, !.avg_speed = 0,
        !.duration = 0, !.start_time = 0, !.end_time = 0,
        !.has_0_100_time = FALSE, !.time_0_100 = 0,
        !.max_altitude = 0, !.min_altitude = 0,
        !.segment_count = 0],
     !.g_last_segment_time = 0,
     !.g_last_gps_time = 0,
     !.g_has_lost_fix = FALSE,
     !.g_accel_start = FALSE,
     !.g_accel_start_time = 0]

gnss_reset_trip(st) ==
  [st EXCEPT
     !.g_trip_data = [@ EXCEPT
        !.total_distance = 0, !.max_speed = 0, !.avg_speed = 0,
        !.duration = 0, !.start_time = 0, !.end_time = 0,
        !.has_0_100_time = FALSE, !.time_0_100 = 0,
        !.max_altitude = 0, !.min_altitude = 0,
        !.segment_count = 0, !.segments = <<>>],
     !.g_last_segment_time = 0,
     !.g_last_gps_time = 0,
     !.g_has_lost_fix = FALSE,
     !.g_accel_start = FALSE,
     !.g_accel_start_time = 0]

\* open_ok: open("/dev/gps") succeeds; mode_ok: the SET_OPE_MODE ioctl succeeds
gnss_init(st, open_ok, mode_ok) ==
  IF st.g_fd >= 0 THEN [st |-> st, ret |-> TRUE]
  ELSE IF ~open_ok THEN [st |-> [st EXCEPT !.g_fd = -1], ret |-> FALSE]
  ELSE LET opened == gnss_reset_trip([st EXCEPT !.g_fd = 3])
       IN IF ~mode_ok
            THEN [st |-> [opened EXCEPT !.g_fd = -1], ret |-> FALSE]
            ELSE [st |-> opened, ret |-> TRUE]

gnss_start(st, open_ok, mode_ok, start_ok) ==
  LET i == IF st.g_fd < 0 THEN gnss_init(st, open_ok, mode_ok)
                          ELSE [st |-> st, ret |-> TRUE]
  IN IF ~i.ret THEN [st |-> i.st, ret |-> FALSE]
     ELSE IF ~i.st.g_running
       THEN IF ~start_ok THEN [st |-> i.st, ret |-> FALSE]
            ELSE [st |-> [i.st EXCEPT !.g_running = TRUE], ret |-> TRUE]
       ELSE [st |-> i.st, ret |-> TRUE]

gnss_stop(st) ==
  IF st.g_fd >= 0 /\ st.g_running THEN [st EXCEPT !.g_running = FALSE] ELSE st

gnss_deinit(st) ==
  IF st.g_fd >= 0
    THEN [(IF st.g_running THEN gnss_stop(st) ELSE st) EXCEPT !.g_fd = -1]
    ELSE st

\* mode_ok: the ioctl that sets the operating mode succeeds (it cannot on a
\* descriptor that is not open); start_ok: the ioctl that starts the receiver
gnss_set_update_rate(st, rate, mode_ok, start_ok) ==
  LET was_running == st.g_running
      s1 == IF was_running THEN gnss_stop(st) ELSE st
      s2 == [s1 EXCEPT !.g_rate = rate]
  IN IF s2.g_fd < 0 \/ ~mode_ok THEN [st |-> s2, ret |-> FALSE]
     ELSE IF was_running THEN gnss_start(s2, TRUE, TRUE, start_ok)
     ELSE [st |-> s2, ret |-> TRUE]

\* ----------------------------------------------------------------- segments
\* a new segment that is appended and not counted
gnss_create_new_segment_uncounted(st, t) ==
  LET has == st.g_current_point.fix_type # FIX_NONE
      segment ==
        [distance |-> 0, avg_speed |-> 0, duration |-> 0,
         start_time |-> t, end_time |-> t, point_count |-> 0,
         moving_time |-> 0, idle_time |-> 0, moving_avg_speed |-> 0,
         start_lat |-> IF has THEN st.g_current_point.latitude ELSE 0,
         start_lon |-> IF has THEN st.g_current_point.longitude ELSE 0,
         end_lat |-> 0, end_lon |-> 0,
         start_time_str |-> FormatMinute(t)]
  IN [st EXCEPT !.g_trip_data.segments = Append(@, segment)]

gnss_create_new_segment(st, t) ==
  LET has == st.g_current_point.fix_type # FIX_NONE
      segment ==
        [distance |-> 0, avg_speed |-> 0, duration |-> 0,
         start_time |-> t, end_time |-> t, point_count |-> 0,
         moving_time |-> 0, idle_time |-> 0, moving_avg_speed |-> 0,
         start_lat |-> IF has THEN st.g_current_point.latitude ELSE 0,
         start_lon |-> IF has THEN st.g_current_point.longitude ELSE 0,
         end_lat |-> 0, end_lon |-> 0,
         start_time_str |-> FormatMinute(t)]
      segs == Append(st.g_trip_data.segments, segment)
  IN [st EXCEPT !.g_trip_data.segments = segs,
                !.g_trip_data.segment_count = Len(segs)]

gnss_start_recording(st, t) ==
  IF ~st.g_recording
    THEN LET s1 == [st EXCEPT !.g_recording = TRUE, !.g_track_points = <<>>]
             s2 == gnss_reset_trip(s1)
             s3 == [s2 EXCEPT !.g_trip_data.start_time = t,
                              !.g_trip_data.end_time = t]
         IN gnss_create_new_segment(s3, t)
    ELSE st

\* a stop that throws the segments away
gnss_stop_recording_discarding(st) ==
  IF st.g_recording
    THEN [st EXCEPT !.g_recording = FALSE, !.g_trip_data.segments = <<>>]
    ELSE st

gnss_stop_recording(st) ==
  IF st.g_recording THEN [st EXCEPT !.g_recording = FALSE] ELSE st


\* ----------------------------------------------------------- fix ingestion
\* fix-loss detection that takes a timer never stamped for a running one
FixLossCheck_unstamped(st, current_time) ==
  IF st.g_recording /\ st.g_segment_settings.enabled
    THEN IF current_time - st.g_last_gps_time >= SegmentTime(st)
           THEN [st EXCEPT !.g_has_lost_fix = TRUE]
           ELSE st
    ELSE st

\* fix-loss detection, run on every sample read
FixLossCheck(st, current_time) ==
  IF st.g_recording /\ st.g_segment_settings.enabled /\ st.g_last_gps_time > 0
    THEN IF current_time - st.g_last_gps_time >= SegmentTime(st)
           THEN [st EXCEPT !.g_has_lost_fix = TRUE]
           ELSE st
    ELSE st

\* GnssPoint new_point, filled from the receiver's sample
NewPoint(pos, t) ==
  [latitude |-> pos.latitude, longitude |-> pos.longitude, speed |-> pos.speed,
   timestamp |-> t, fix_type |-> FixTypeOf(pos.fixmode)]

\* the guard left out
HasLastPoint_always(st) == TRUE

\* if (g_has_last_point)
HasLastPoint(st) == st.g_has_last_point

\* the body of "if (g_recording && new_point.fix_type != FIX_NONE)"
AccumulateFix(st, new_point) ==
  IF st.g_recording /\ new_point.fix_type # FIX_NONE
    THEN
      LET distance == calculate_distance(
                        st.g_last_point.latitude, st.g_last_point.longitude,
                        new_point.latitude, new_point.longitude)
          a == [st EXCEPT !.g_trip_data.total_distance = @ + distance]
          segs == a.g_trip_data.segments
          n == Len(segs)
          dur == new_point.timestamp - segs[n].start_time
          seg == [segs[n] EXCEPT
                    !.distance = @ + distance,
                    !.end_time = new_point.timestamp,
                    !.duration = dur,
                    !.point_count = @ + 1,
                    !.avg_speed = IF dur > 0
                                    THEN (segs[n].distance + distance) \div dur
                                    ELSE @]
          b == IF n > 0 THEN [a EXCEPT !.g_trip_data.segments[n] = seg] ELSE a
          c == [b EXCEPT !.g_last_gps_time = new_point.timestamp]
          d == IF c.g_has_lost_fix /\ c.g_segment_settings.enabled
                 THEN [gnss_create_new_segment(c, new_point.timestamp) EXCEPT
                         !.g_last_segment_time = new_point.timestamp,
                         !.g_has_lost_fix = FALSE]
                 ELSE c
          s1 == IF distance > NoiseFloor THEN d ELSE st
      IN [s1 EXCEPT !.g_track_points = Append(@, new_point)]
    ELSE st

gnss_detect_acceleration(st) ==
  IF st.g_trip_data.has_0_100_time \/ st.g_current_point.fix_type = FIX_NONE
    THEN st
    ELSE
      LET speed_kmh == st.g_current_point.speed * 36
          s1 == IF ~st.g_accel_start
                  THEN [st EXCEPT !.g_accel_start = TRUE,
                                  !.g_accel_start_time = st.g_trip_data.duration]
                  ELSE st
      IN IF ~st.g_accel_start /\ speed_kmh < 50 THEN st
         ELSE IF s1.g_accel_start /\ speed_kmh >= 1000
           THEN [s1 EXCEPT
                   !.g_trip_data.has_0_100_time = TRUE,
                   !.g_trip_data.time_0_100 =
                      s1.g_trip_data.duration - s1.g_accel_start_time]
           ELSE s1

\* a failed read taken for a lost fix
PositionFailure_lost(st) ==
  [st |-> [st EXCEPT !.g_has_lost_fix = TRUE], ret |-> FALSE, built |-> FALSE,
   new_point |-> ZeroPoint]

\* a call that fails before anything is read or changed
PositionFailure(st) ==
  [st |-> st, ret |-> FALSE, built |-> FALSE, new_point |-> ZeroPoint]

\* a poll that keeps the sample it built as the current fix
gnss_get_position_keeping(st, rd, pos, t) ==
  IF st.g_fd < 0 \/ ~st.g_running \/ rd # "ok" THEN PositionFailure(st)
  ELSE
    LET s1 == FixLossCheck(st, t)
        new_point == NewPoint(pos, t)
        s2 == [s1 EXCEPT !.g_current_point = new_point]
    IN IF pos.fixmode # 0
         THEN [st |-> gnss_detect_acceleration(s2), ret |-> TRUE,
               built |-> TRUE, new_point |-> new_point]
         ELSE [st |-> s1, ret |-> TRUE, built |-> FALSE, new_point |-> ZeroPoint]

\* rd: what read() gives (an error, a short read, a whole sample); pos: the sample
gnss_get_position(st, rd, pos, t) ==
  IF st.g_fd < 0 \/ ~st.g_running THEN PositionFailure(st)
  ELSE IF rd = "error" THEN PositionFailure(st)
  ELSE IF rd # "ok" THEN PositionFailure(st)
  ELSE
    LET s1 == FixLossCheck(st, t)
        new_point == NewPoint(pos, t)
        s2 == IF HasLastPoint(s1)
                THEN AccumulateFix([s1 EXCEPT !.g_last_point = s1.g_current_point],
                                   new_point)
                ELSE s1
    IN IF pos.fixmode # 0
         THEN [st |-> gnss_detect_acceleration(s2), ret |-> TRUE,
               built |-> TRUE, new_point |-> new_point]
         ELSE [st |-> s1, ret |-> TRUE, built |-> FALSE, new_point |-> ZeroPoint]

\* the call gets as far as line 263 and finds the list not empty
ReachesBack(st, rd, pos, t) ==
  /\ st.g_fd >= 0 /\ st.g_running /\ rd = "ok"
  /\ HasLastPoint(FixLossCheck(st, t))
  /\ st.g_recording /\ NewPoint(pos, t).fix_type # FIX_NONE
  /\ calculate_distance(st.g_current_point.latitude,
                         st.g_current_point.longitude,
                         pos.latitude, pos.longitude) > NoiseFloor
  /\ st.g_trip_data.segments # <<>>

\* ------------------------------------------------------------ manual close
EmptyFiles == [name \in {} |-> ZeroTrip]

\* fopen_ok: the directory and the file can be created
gnss_save_segment_data_to_json(st, fs, t, fopen_ok) ==
  IF st.g_trip_data.segments = <<>> THEN [fs |-> fs, ret |-> FALSE]
  ELSE IF ~fopen_ok THEN [fs |-> fs, ret |-> FALSE]
  ELSE
    LET content ==
          [trip |-> [total_distance |-> st.g_trip_data.total_distance,
                     avg_speed |-> st.g_trip_data.avg_speed,
                     max_speed |-> st.g_trip_data.max_speed,
                     duration |-> st.g_trip_data.duration,
                     start_time |-> st.g_trip_data.start_time],
           segments |-> st.g_trip_data.segments]
    IN [fs |-> (t :> content) @@ fs, ret |-> TRUE]

\* one segment of the file as fprintf writes it: %.2f (hundredths of a metre
\* and of a m/s), %d, %u, "%Y-%m-%d %H:%M:%S", %.6f (millionths of a degree,
\* nine to the metre)
SegmentText(seg, id) ==
  [id |-> id,
   distance |-> seg.distance * 10,
   avg_speed |-> seg.avg_speed * 100,
   moving_avg_speed |-> seg.moving_avg_speed * 100,
   duration |-> seg.duration,
   moving_time |-> seg.moving_time,
   idle_time |-> seg.idle_time,
   start_time |-> seg.start_time,
   end_time |-> seg.end_time,
   start_lat |-> (seg.start_lat * 9) \div 10,
   start_lon |-> (seg.start_lon * 9) \div 10,
   end_lat |-> (seg.end_lat * 9) \div 10,
   end_lon |-> (seg.end_lon * 9) \div 10]

\* one segment as the loader builds it from an object of the file at time t:
\* six fields are parsed, point_count is set to 0, start_time is the time of
\* loading, and end_time and the four coordinates are never assigned (junk:
\* what the uninitialised members hold)
SegmentParse(obj, t, junk) ==
  [distance |-> obj.distance \div 10,
   avg_speed |-> obj.avg_speed \div 100,
   duration |-> obj.duration,
   moving_time |-> obj.moving_time,
   idle_time |-> obj.idle_time,
   moving_avg_speed |-> obj.moving_avg_speed \div 100,
   point_count |-> 0,
   start_time |-> t,
   start_time_str |-> obj.start_time,
   end_time |-> junk,
   start_lat |-> junk, start_lon |-> junk,
   end_lat |-> junk, end_lon |-> junk]

\* fs[filename].segments holds the values handed to fprintf, SegmentText their
\* printed form; read_ok: the buffer is allocated and the whole file is read
gnss_load_segment_data_from_file(fs, filename, t, read_ok, junk) ==
  IF filename \notin DOMAIN fs THEN [ret |-> FALSE, segments |-> <<>>, rd |-> "missing"]
  ELSE IF ~read_ok THEN [ret |-> FALSE, segments |-> <<>>, rd |-> "short"]
  ELSE
    LET written == fs[filename].segments
        segments == [i \in 1..Len(written) |->
                       SegmentParse(SegmentText(written[i], i), t, junk)]
    IN [ret |-> segments # <<>>, segments |-> segments, rd |-> "ok"]

\* A file that the engine did not write whole, object by object: "good" is an
\* object as written, "no_close" has the opening quote of start_time and no
\* closing one, "no_value" has the name start_time and no quote after it,
\* "cut" has no closing brace.
ObjectShapes == {"good", "no_close", "no_value", "cut"}

\* the loader's loop over such objects; strchr(quote_start + 1, '"') with
\* quote_start null has no defined outcome: ub says whether the read of
\* address 1 stops the program ("crash") or runs on over other memory
LoadObjects(objs, t, junk, ub) ==
  LET zero == [distance |-> 0, avg_speed |-> 0, duration |-> 0,
               moving_time |-> 0, idle_time |-> 0, moving_avg_speed |-> 0,
               point_count |-> 0, start_time |-> junk, start_time_str |-> junk,
               end_time |-> junk, start_lat |-> junk, start_lon |-> junk,
               end_lat |-> junk, end_lon |-> junk]
      RECURSIVE from(_, _)
      from(i, acc) ==
        IF i > Len(objs) \/ objs[i] = "cut"
          THEN [segments |-> acc, crashed |-> FALSE]
        ELSE IF objs[i] = "no_value" /\ ub = "crash"
          THEN [segments |-> acc, crashed |-> TRUE]
        ELSE IF objs[i] = "good"
          THEN from(i + 1, Append(acc, [zero EXCEPT !.start_time = t,
                                                    !.start_time_str = i]))
        ELSE from(i + 1, Append(acc, zero))
  IN from(1, <<>>)

\* a manual close that does not ask whether a recording is running
gnss_end_current_segment_idle(st, fs, t, fopen_ok) ==
  IF st.g_trip_data.segments # <<>>
    THEN
      LET segs == st.g_trip_data.segments
          n == Len(segs)
          has == st.g_current_point.fix_type # FIX_NONE
          cur == [segs[n] EXCEPT
                    !.end_time = t,
                    !.duration = t - segs[n].start_time,
                    !.end_lat = IF has THEN st.g_current_point.latitude ELSE @,
                    !.end_lon = IF has THEN st.g_current_point.longitude ELSE @]
          s1 == [st EXCEPT !.g_trip_data.segments[n] = cur]
          sv == gnss_save_segment_data_to_json(s1, fs, t, fopen_ok)
          s2 == gnss_create_new_segment(s1, t)
      IN [st |-> [s2 EXCEPT !.g_last_segment_time = t], fs |-> sv.fs]
    ELSE [st |-> st, fs |-> fs]

\* a manual close that gives up when the snapshot cannot be written
gnss_end_current_segment_rollback(st, fs, t, fopen_ok) ==
  IF st.g_recording /\ st.g_trip_data.segments # <<>>
    THEN
      LET segs == st.g_trip_data.segments
          n == Len(segs)
          has == st.g_current_point.fix_type # FIX_NONE
          cur == [segs[n] EXCEPT
                    !.end_time = t,
                    !.duration = t - segs[n].start_time,
                    !.end_lat = IF has THEN st.g_current_point.latitude ELSE @,
                    !.end_lon = IF has THEN st.g_current_point.longitude ELSE @]
          s1 == [st EXCEPT !.g_trip_data.segments[n] = cur]
          sv == gnss_save_segment_data_to_json(s1, fs, t, fopen_ok)
          s2 == gnss_create_new_segment(s1, t)
      IN IF sv.ret THEN [st |-> [s2 EXCEPT !.g_last_segment_time = t], fs |-> sv.fs]
         ELSE [st |-> st, fs |-> fs]
    ELSE [st |-> st, fs |-> fs]

\* a manual close that stamps every segment of the list
gnss_end_current_segment_restamp(st, fs, t, fopen_ok) ==
  IF st.g_recording /\ st.g_trip_data.segments # <<>>
    THEN
      LET segs == st.g_trip_data.segments
          all == [i \in 1..Len(segs) |->
                    [segs[i] EXCEPT !.end_time = t,
                                    !.duration = t - segs[i].start_time]]
          s1 == [st EXCEPT !.g_trip_data.segments = all]
          sv == gnss_save_segment_data_to_json(s1, fs, t, fopen_ok)
          s2 == gnss_create_new_segment(s1, t)
      IN [st |-> [s2 EXCEPT !.g_last_segment_time = t], fs |-> sv.fs]
    ELSE [st |-> st, fs |-> fs]

gnss_end_current_segment(st, fs, t, fopen_ok) ==
  IF st.g_recording /\ st.g_trip_data.segments # <<>>
    THEN
      LET segs == st.g_trip_data.segments
          n == Len(segs)
          has == st.g_current_point.fix_type # FIX_NONE
          cur == [segs[n] EXCEPT
                    !.end_time = t,
                    !.duration = t - segs[n].start_time,
                    !.end_lat = IF has THEN st.g_current_point.latitude ELSE @,
                    !.end_lon = IF has THEN st.g_current_point.longitude ELSE @]
          s1 == [st EXCEPT !.g_trip_data.segments[n] = cur]
          sv == gnss_save_segment_data_to_json(s1, fs, t, fopen_ok)
          s2 == gnss_create_new_segment(s1, t)
      IN [st |-> [s2 EXCEPT !.g_last_segment_time = t], fs |-> sv.fs]
    ELSE [st |-> st, fs |-> fs]

\* ---------------------------------------------------------------- settings
gnss_set_segment_option(st, option) ==
  [st EXCEPT !.g_segment_settings.option = option]

gnss_set_segment_custom_time(st, seconds) ==
  [st EXCEPT !.g_segment_settings.custom_time_sec = seconds]

gnss_enable_segment(st, enable) ==
  [st EXCEPT !.g_segment_settings.enabled = enable]

\* the keys the segment settings screen acts on without leaving the screen
SegmentKeys == {"KEY_NEXT", "KEY_PREV", "KEY_SELECT", "KEY_LEFT", "KEY_RIGHT"}

\* gnss_handle_key, case GNSS_SCREEN_SEGMENT: the option is read as an int,
\* stepped as an index into five choices and cast back to SegmentTimeOption
gnss_handle_key(st, index, key) ==
  LET enabled == st.g_segment_settings.enabled
      option == st.g_segment_settings.option
      custom_time == st.g_segment_settings.custom_time_sec
      max_index == IF option = SEGMENT_TIME_CUSTOM /\ enabled THEN 3 ELSE 2
      minutes == custom_time \div 60
  IN IF key = "KEY_NEXT"
       THEN [st |-> st, index |-> (index + 1) % max_index]
     ELSE IF key = "KEY_PREV"
       THEN [st |-> st, index |-> (index + max_index - 1) % max_index]
     ELSE IF index = 0
       THEN [st |-> gnss_enable_segment(st, ~enabled), index |-> index]
     ELSE IF index = 1 /\ enabled
       THEN IF key = "KEY_LEFT"
              THEN [st |-> gnss_set_segment_option(
                             st, IF option = 0 THEN 4 ELSE option - 1),
                    index |-> index]
              ELSE [st |-> gnss_set_segment_option(st, (option + 1) % 5),
                    index |-> index]
     ELSE IF index = 2 /\ enabled /\ option = SEGMENT_TIME_CUSTOM
       THEN IF key = "KEY_LEFT" /\ minutes > 1
              THEN [st |-> gnss_set_segment_custom_time(st, (minutes - 1) * 60),
                    index |-> index]
            ELSE IF key = "KEY_RIGHT"
              THEN [st |-> gnss_set_segment_custom_time(st, (minutes + 1) * 60),
                    index |-> index]
            ELSE [st |-> st, index |-> index]
     ELSE [st |-> st, index |-> index]

\* found: the pointer returned is not null; index counts from 0
gnss_get_segment_data(st, index) ==
  IF index < Len(st.g_trip_data.segments)
    THEN [found |-> TRUE, segment |-> st.g_trip_data.segments[index + 1]]
    ELSE [found |-> FALSE, segment |-> <<>>]

gnss_has_fix(st) == st.g_current_point.fix_type # FIX_NONE


\* ------------------------------------------------ manual 0-30/0-50 measuring
NoAccelFile == [exists |-> FALSE, records |-> <<>>]

\* one object of the file as fprintf writes it: %ld, %.2f (hundredths), "%s"
AccelText(item) ==
  [timestamp |-> item.timestamp,
   time_0_30 |-> item.time_0_30 * 100,
   time_0_50 |-> item.time_0_50 * 100,
   max_speed |-> item.max_speed_reached * 10,
   date_time |-> item.date_time_str]

\* one object of the file as atol, atof and strncpy read it
AccelParse(obj) ==
  [timestamp |-> obj.timestamp,
   time_0_30 |-> obj.time_0_30 \div 100,
   time_0_50 |-> obj.time_0_50 \div 100,
   max_speed_reached |-> obj.max_speed \div 10,
   date_time_str |-> obj.date_time]

\* a save that keeps every record
gnss_save_acceleration_data_uncapped(st, af, data, fopen_ok) ==
  LET all == <<data>> \o st.g_acceleration_history
      s1 == [st EXCEPT !.g_acceleration_history = all]
      text == [i \in 1..Len(all) |-> AccelText(all[i])]
  IN IF ~fopen_ok THEN [st |-> s1, af |-> af, ret |-> FALSE]
     ELSE [st |-> s1, af |-> [exists |-> TRUE, records |-> text], ret |-> TRUE]

gnss_save_acceleration_data(st, af, data, fopen_ok) ==
  LET all == <<data>> \o st.g_acceleration_history
      kept == IF Len(all) > HistoryCap THEN SubSeq(all, 1, HistoryCap) ELSE all
      s1 == [st EXCEPT !.g_acceleration_history = kept]
      text == [i \in 1..Len(kept) |-> AccelText(kept[i])]
  IN IF ~fopen_ok THEN [st |-> s1, af |-> af, ret |-> FALSE]
     ELSE [st |-> s1, af |-> [exists |-> TRUE, records |-> text], ret |-> TRUE]

\* a read that goes to the file every time
gnss_get_acceleration_history_reread(st, af, read_ok) ==
  IF ~af.exists THEN [st |-> st, result |-> <<>>, rd |-> "missing"]
  ELSE IF ~read_ok THEN [st |-> st, result |-> <<>>, rd |-> "short"]
  ELSE
    LET loaded == [i \in 1..Len(af.records) |-> AccelParse(af.records[i])]
    IN [st |-> [st EXCEPT !.g_acceleration_history = loaded],
        result |-> loaded, rd |-> "ok"]

\* read_ok: the buffer is allocated and the whole file is read
gnss_get_acceleration_history(st, af, read_ok) ==
  IF st.g_acceleration_history # <<>>
    THEN [st |-> st, result |-> st.g_acceleration_history, rd |-> "none"]
  ELSE IF ~af.exists THEN [st |-> st, result |-> <<>>, rd |-> "missing"]
  ELSE IF ~read_ok THEN [st |-> st, result |-> <<>>, rd |-> "short"]
  ELSE
    LET loaded == [i \in 1..Len(af.records) |-> AccelParse(af.records[i])]
    IN [st |-> [st EXCEPT !.g_acceleration_history = loaded],
        result |-> loaded, rd |-> "ok"]

\* a start that does not ask for a fix
gnss_start_acceleration_measurement_anyfix(st, t) ==
  IF st.g_trip_data.measuring_acceleration
    THEN st
    ELSE [st EXCEPT !.g_trip_data = [@ EXCEPT
            !.measuring_acceleration = TRUE,
            !.acceleration_start_time = t,
            !.time_0_30 = -1, !.time_0_50 = -1,
            !.reached_30kmh = FALSE, !.reached_50kmh = FALSE]]

gnss_start_acceleration_measurement(st, t) ==
  IF st.g_current_point.fix_type = FIX_NONE \/ st.g_trip_data.measuring_acceleration
    THEN st
    ELSE [st EXCEPT !.g_trip_data = [@ EXCEPT
            !.measuring_acceleration = TRUE,
            !.acceleration_start_time = t,
            !.time_0_30 = -1, !.time_0_50 = -1,
            !.reached_30kmh = FALSE, !.reached_50kmh = FALSE]]

\* a stop that saves whenever it is asked to
gnss_stop_acceleration_measurement_always(st, af, save_result, t, fopen_ok) ==
  LET data == [timestamp |-> t,
               time_0_30 |-> st.g_trip_data.time_0_30,
               time_0_50 |-> st.g_trip_data.time_0_50,
               max_speed_reached |-> st.g_trip_data.max_speed * 36,
               date_time_str |-> FormatMinute(t)]
      sv == IF save_result
              THEN gnss_save_acceleration_data(st, af, data, fopen_ok)
              ELSE [st |-> st, af |-> af, ret |-> TRUE]
  IN [st |-> [sv.st EXCEPT !.g_trip_data.measuring_acceleration = FALSE],
      af |-> sv.af]

gnss_stop_acceleration_measurement(st, af, save_result, t, fopen_ok) ==
  IF ~st.g_trip_data.measuring_acceleration THEN [st |-> st, af |-> af]
  ELSE
    LET data == [timestamp |-> t,
                 time_0_30 |-> st.g_trip_data.time_0_30,
                 time_0_50 |-> st.g_trip_data.time_0_50,
                 max_speed_reached |-> st.g_trip_data.max_speed * 36,
                 date_time_str |-> FormatMinute(t)]
        sv == IF save_result
                 /\ (st.g_trip_data.reached_30kmh \/ st.g_trip_data.reached_50kmh)
                THEN gnss_save_acceleration_data(st, af, data, fopen_ok)
                ELSE [st |-> st, af |-> af, ret |-> TRUE]
    IN [st |-> [sv.st EXCEPT !.g_trip_data.measuring_acceleration = FALSE],
        af |-> sv.af]

\* point: the fix handed in; speeds in tenths of km/h, times in whole seconds
gnss_check_acceleration_measurement(st, af, point, t, fopen_ok) ==
  IF ~st.g_trip_data.measuring_acceleration \/ point.fix_type = FIX_NONE
    THEN [st |-> st, af |-> af]
  ELSE
    LET speed_kmh == point.speed * 36
        start == st.g_trip_data.acceleration_start_time
        s1 == IF ~st.g_trip_data.reached_30kmh /\ speed_kmh >= 300
                THEN [st EXCEPT !.g_trip_data.time_0_30 = t - start,
                                !.g_trip_data.reached_30kmh = TRUE]
                ELSE st
        r2 == IF ~s1.g_trip_data.reached_50kmh /\ speed_kmh >= 500
                THEN gnss_stop_acceleration_measurement(
                       [s1 EXCEPT !.g_trip_data.time_0_50 = t - start,
                                  !.g_trip_data.reached_50kmh = TRUE],
                       af, TRUE, t, fopen_ok)
                ELSE [st |-> s1, af |-> af]
    IN IF t - r2.st.g_trip_data.acceleration_start_time > 60
         THEN gnss_stop_acceleration_measurement(r2.st, r2.af, FALSE, t, fopen_ok)
         ELSE r2

\* ------------------------------------------------------------------ actions
Init ==
  /\ g = InitGlobals
  /\ now = T0
  /\ seg_files = EmptyFiles
  /\ accel_file = NoAccelFile
  /\ call = NoCall("boot")
  /\ obs = [has_fix |-> FALSE, lat |-> 0, max_speed |-> 0, last_gps_time |-> 0]
  /\ seen = NoneSeen
  /\ app = InitApp

\* obs once the trip is reset
ObsReset == [obs EXCEPT !.max_speed = 0, !.last_gps_time = 0]

\* the wall clock advances
Advance(steps, limit) ==
  /\ \E d \in steps : now + d <= T0 + limit /\ now' = now + d
  /\ call' = NoCall("clock")
  /\ UNCHANGED <<g, seg_files, accel_file, obs, seen, app>>

Tick == Advance(TickSteps, MaxElapsed)

TickSeg == Advance(SegTickSteps, MaxElapsed)

TickAcc == Advance(AccTickSteps, AccElapsed)

TickMan == Advance(ManTickSteps, ManElapsed)

GnssInit ==
  \E open_ok \in BOOLEAN, mode_ok \in BOOLEAN :
    LET r == gnss_init(g, open_ok, mode_ok) IN
    /\ g' = r.st
    /\ call' = [NoCall("gnss_init") EXCEPT !.ret = r.ret]
    /\ obs' = IF g.g_fd < 0 /\ open_ok THEN ObsReset ELSE obs
    /\ seen' = IF g.g_fd < 0 /\ open_ok THEN NoneSeen ELSE seen
    /\ UNCHANGED <<now, seg_files, accel_file, app>>

GnssStart ==
  \E open_ok \in BOOLEAN, mode_ok \in BOOLEAN, start_ok \in BOOLEAN :
    LET r == gnss_start(g, open_ok, mode_ok, start_ok) IN
    /\ g' = r.st
    /\ call' = [NoCall("gnss_start") EXCEPT !.ret = r.ret]
    /\ obs' = IF g.g_fd < 0 /\ open_ok THEN ObsReset ELSE obs
    /\ seen' = IF g.g_fd < 0 /\ open_ok THEN NoneSeen ELSE seen
    /\ UNCHANGED <<now, seg_files, accel_file, app>>

GnssStop ==
  /\ g' = gnss_stop(g)
  /\ call' = NoCall("gnss_stop")
  /\ UNCHANGED <<now, seg_files, accel_file, obs, seen, app>>

GnssDeinit ==
  /\ g' = gnss_deinit(g)
  /\ call' = NoCall("gnss_deinit")
  /\ UNCHANGED <<now, seg_files, accel_file, obs, seen, app>>

SetUpdateRate ==
  /\ \E rate \in Rates, mode_ok \in BOOLEAN, start_ok \in BOOLEAN :
       LET r == gnss_set_update_rate(g, rate, mode_ok, start_ok) IN
       /\ g' = r.st
       /\ call' = [NoCall("gnss_set_update_rate") EXCEPT
                     !.ret = r.ret, !.arg = <<rate>>]
  /\ UNCHANGED <<now, seg_files, accel_file, obs, seen, app>>

\* one poll of the receiver, its outcome drawn from inputs
PollBody(inputs) ==
  /\ g.g_trip_data.total_distance <= MaxDistance
  /\ Len(g.g_trip_data.segments) <= MaxSegments
  /\ \E i \in inputs :
       LET r == gnss_get_position(g, i.rd, i.pos, now)
           read == g.g_fd >= 0 /\ g.g_running
           accepted == r.ret /\ r.built /\ r.new_point.fix_type # FIX_NONE
           d == Abs(i.pos.latitude - obs.lat)
           counted == accepted /\ g.g_recording /\ obs.has_fix
                      /\ d >= NoiseFloor /\ d < 5000
       IN
       /\ g' = r.st
       /\ call' = [op |-> "gnss_get_position", ret |-> r.ret,
                   rd |-> IF read THEN i.rd ELSE "none",
                   fixmode |-> IF r.ret THEN i.pos.fixmode ELSE 0,
                   built |-> r.built, new_point |-> r.new_point,
                   from_prev |-> IF accepted /\ obs.has_fix THEN d ELSE -1,
                   fopen_ok |-> TRUE]
       /\ obs' = IF accepted
                   THEN [has_fix |-> TRUE, lat |-> i.pos.latitude,
                         max_speed |-> IF g.g_recording
                                         THEN Max(obs.max_speed, i.pos.speed)
                                         ELSE obs.max_speed,
                         last_gps_time |-> IF counted THEN now
                                                      ELSE obs.last_gps_time]
                   ELSE obs
  /\ UNCHANGED <<now, seg_files, accel_file>>

PollStep(inputs) == PollBody(inputs) /\ UNCHANGED app

\* gnss_thread enters gnss_get_position and runs it up to the test of line 263
PollBegin ==
  /\ ~app.poll.busy
  /\ \E i \in SegPollInputs :
       app' = [app EXCEPT !.poll =
                 [busy |-> TRUE, rd |-> i.rd, pos |-> i.pos,
                  had |-> g.g_trip_data.segments # <<>>,
                  checked |-> ReachesBack(g, i.rd, i.pos, now),
                  raced |-> FALSE]]
  /\ call' = NoCall("gnss_thread")
  /\ UNCHANGED <<g, now, seg_files, accel_file, obs, seen>>

\* gnss_thread runs the call to its end; segments.back() of a list emptied
\* since the test has no defined outcome (ub_crash, ub_runs)
PollEnd ==
  /\ app.poll.busy
  /\ app' = [app EXCEPT !.poll =
               [NoPoll EXCEPT !.raced =
                  app.poll.had /\ g.g_trip_data.segments = <<>>]]
  /\ IF app.poll.checked /\ g.g_trip_data.segments = <<>>
       THEN /\ \E ub \in {"ub_crash", "ub_runs"} :
                 call' = [NoCall("gnss_get_position") EXCEPT !.rd = ub]
            /\ UNCHANGED <<g, now, seg_files, accel_file, obs>>
       ELSE PollBody({[rd |-> app.poll.rd, pos |-> app.poll.pos]})
  /\ UNCHANGED seen

Poll(inputs) == PollStep(inputs) /\ UNCHANGED seen

\* a poll of an acceleration run, which notes when the run's fixes came
PollAcc(inputs) ==
  /\ PollStep(inputs)
  /\ LET c == call'
         took == c.ret /\ c.built /\ c.new_point.fix_type # FIX_NONE
                 /\ g.g_recording
         kmh == c.new_point.speed * 36
     IN seen' = IF took /\ seen.slow_at < 0 /\ kmh < 50
                  THEN [seen EXCEPT !.slow_at = now]
                ELSE IF took /\ seen.slow_at >= 0 /\ seen.fast_at < 0
                        /\ kmh >= 1000
                  THEN [seen EXCEPT !.fast_at = now]
                ELSE seen

GetPosition == Poll(PollInputs)

GetPositionAcc == PollAcc(AccPollInputs)

GetPositionSeg == Poll(SegPollInputs)

StartRecording ==
  /\ g' = gnss_start_recording(g, now)
  /\ call' = NoCall("gnss_start_recording")
  /\ obs' = IF ~g.g_recording THEN ObsReset ELSE obs
  /\ seen' = IF ~g.g_recording THEN NoneSeen ELSE seen
  /\ UNCHANGED <<now, seg_files, accel_file, app>>

StopRecording ==
  /\ g' = gnss_stop_recording(g)
  /\ call' = NoCall("gnss_stop_recording")
  /\ UNCHANGED <<now, seg_files, accel_file, obs, seen, app>>

ResetTrip ==
  /\ g' = gnss_reset_trip(g)
  /\ call' = NoCall("gnss_reset_trip")
  /\ obs' = ObsReset
  /\ seen' = NoneSeen
  /\ UNCHANGED <<now, seg_files, accel_file, app>>

EndSegmentStep(limit) ==
  /\ Len(g.g_trip_data.segments) < limit
  /\ \E fopen_ok \in BOOLEAN :
       /\ fopen_ok =>
            (now \in DOMAIN seg_files \/ Cardinality(DOMAIN seg_files) < MaxFiles)
       /\ LET r == gnss_end_current_segment(g, seg_files, now, fopen_ok) IN
          /\ g' = r.st
          /\ seg_files' = r.fs
          /\ call' = [NoCall("gnss_end_current_segment") EXCEPT
                        !.fopen_ok = fopen_ok]
  /\ UNCHANGED <<now, accel_file, obs, seen, app>>

EndCurrentSegment == EndSegmentStep(MaxSegments)

EndCurrentSegmentFile == EndSegmentStep(MaxClosed)

SetSegmentOption ==
  /\ \E option \in SegOptions : g' = gnss_set_segment_option(g, option)
  /\ call' = NoCall("gnss_set_segment_option")
  /\ UNCHANGED <<now, seg_files, accel_file, obs, seen, app>>

SetSegmentCustomTime ==
  /\ \E seconds \in CustomTimes : g' = gnss_set_segment_custom_time(g, seconds)
  /\ call' = NoCall("gnss_set_segment_custom_time")
  /\ UNCHANGED <<now, seg_files, accel_file, obs, seen, app>>

EnableSegment ==
  /\ \E enable \in BOOLEAN : g' = gnss_enable_segment(g, enable)
  /\ call' = NoCall("gnss_enable_segment")
  /\ UNCHANGED <<now, seg_files, accel_file, obs, seen, app>>

StartMeasurementStep ==
  /\ g' = gnss_start_acceleration_measurement(g, now)
  /\ call' = NoCall("gnss_start_acceleration_measurement")
  /\ UNCHANGED <<now, seg_files, accel_file, obs, app>>

StartAccelerationMeasurement == StartMeasurementStep /\ UNCHANGED seen

StopMeasurementStep ==
  /\ \E save_result \in BOOLEAN, fopen_ok \in BOOLEAN :
       LET r == gnss_stop_acceleration_measurement(g, accel_file, save_result,
                                                   now, fopen_ok) IN
       /\ g' = r.st
       /\ accel_file' = r.af
       /\ call' = [NoCall("gnss_stop_acceleration_measurement") EXCEPT
                     !.arg = <<save_result>>]
  /\ UNCHANGED <<now, seg_files, obs, app>>

StopAccelerationMeasurement == StopMeasurementStep /\ UNCHANGED seen

\* the same calls in a manual run, which notes what was asked for and when
StartAccelerationMeasurementMan ==
  /\ StartMeasurementStep
  /\ seen' = IF obs.has_fix /\ seen.man_at < 0
               THEN [seen EXCEPT !.man_at = now, !.r30 = FALSE, !.r50 = FALSE,
                                 !.m30 = -1, !.ended = "no"]
               ELSE seen

StopAccelerationMeasurementMan ==
  /\ StopMeasurementStep
  /\ seen' = IF seen.man_at >= 0
               THEN [seen EXCEPT !.man_at = -1, !.ended = "stop"]
               ELSE seen

ManPoints ==
  { [latitude |-> 9, longitude |-> 0, speed |-> v, timestamp |-> now,
     fix_type |-> q] : v \in ManSpeeds, q \in {FIX_NONE, FIX_3D} }

\* a fix is handed to the manual measurement
CheckAccelerationMeasurement ==
  /\ \E point \in ManPoints, fopen_ok \in BOOLEAN :
       LET r == gnss_check_acceleration_measurement(g, accel_file, point, now,
                                                    fopen_ok)
           kmh == point.speed * 36
           late == now - seen.man_at > 60
       IN /\ g' = r.st
          /\ accel_file' = r.af
          /\ call' = [NoCall("gnss_check_acceleration_measurement") EXCEPT
                        !.new_point = point, !.fopen_ok = fopen_ok]
          /\ seen' = IF seen.man_at < 0 \/ point.fix_type = FIX_NONE THEN seen
                     ELSE [seen EXCEPT
                             !.r30 = @ \/ kmh >= 300,
                             !.r50 = @ \/ kmh >= 500,
                             !.m30 = IF ~seen.r30 /\ kmh >= 300
                                       THEN now - seen.man_at ELSE @,
                             !.man_at = IF late \/ kmh >= 500 THEN -1 ELSE @,
                             !.ended = IF late THEN "timeout"
                                       ELSE IF kmh >= 500 THEN "fifty" ELSE @]
  /\ UNCHANGED <<now, seg_files, obs, app>>

Next ==
  \/ Tick
  \/ GnssInit
  \/ GnssStart
  \/ GnssStop
  \/ GnssDeinit
  \/ GetPosition
  \/ StartRecording
  \/ StopRecording
  \/ ResetTrip
  \/ EndCurrentSegment
  \/ StartAccelerationMeasurement
  \/ StopAccelerationMeasurement

Spec == Init /\ [][Next]_vars

\* Segmentation runs: the receiver is started, the settings screen is in use
InitSeg ==
  /\ g = gnss_start(InitGlobals, TRUE, TRUE, TRUE).st
  /\ now = T0
  /\ seg_files = EmptyFiles
  /\ accel_file = NoAccelFile
  /\ call = NoCall("gnss_start")
  /\ obs = [has_fix |-> FALSE, lat |-> 0, max_speed |-> 0, last_gps_time |-> 0]
  /\ seen = NoneSeen
  /\ app = InitApp

NextSeg ==
  \/ TickSeg
  \/ GetPositionSeg
  \/ StartRecording
  \/ StopRecording
  \/ ResetTrip
  \/ SetSegmentOption
  \/ SetSegmentCustomTime
  \/ EnableSegment

SpecSeg == InitSeg /\ [][NextSeg]_vars

\* Acceleration runs: the receiver is started, fixes come at chosen speeds
InitAcc ==
  /\ g = gnss_start(InitGlobals, TRUE, TRUE, TRUE).st
  /\ now = T0
  /\ seg_files = EmptyFiles
  /\ accel_file = NoAccelFile
  /\ call = NoCall("gnss_start")
  /\ obs = [has_fix |-> FALSE, lat |-> 0, max_speed |-> 0, last_gps_time |-> 0]
  /\ seen = NoneSeen
  /\ app = InitApp

NextAcc ==
  \/ TickAcc
  \/ GetPositionAcc
  \/ StartRecording
  \/ StopRecording
  \/ ResetTrip
  \/ StartAccelerationMeasurement
  \/ StopAccelerationMeasurement

SpecAcc == InitAcc /\ [][NextAcc]_vars

\* what a member that was never assigned may hold
JunkValues == {0, 77}

\* the file list screen loads a file of /sd/segments (0: a name not there)
LoadSegmentData ==
  /\ \E filename \in DOMAIN seg_files \cup {0}, read_ok \in BOOLEAN,
        junk \in JunkValues :
       LET r == gnss_load_segment_data_from_file(seg_files, filename, now,
                                                 read_ok, junk) IN
       call' = [NoCall("gnss_load_segment_data_from_file") EXCEPT
                  !.ret = r.ret, !.rd = r.rd, !.arg = IF filename \in DOMAIN seg_files
                             THEN seg_files[filename].segments ELSE <<>>,
                  !.result = r.segments]
  /\ UNCHANGED <<g, now, seg_files, accel_file, obs, seen, app>>

\* files of one or two objects, well formed or not
DamagedFiles ==
  { <<a>> : a \in ObjectShapes } \cup
  { <<"good", a>> : a \in ObjectShapes \ {"good"} }

\* the file list screen loads a file that was cut short or edited
LoadDamagedSegmentData ==
  /\ \E objs \in DamagedFiles, junk \in JunkValues, ub \in {"crash", "runs"} :
       LET r == LoadObjects(objs, now, junk, ub) IN
       call' = [NoCall("gnss_load_segment_data_from_file") EXCEPT
                  !.ret = ~r.crashed /\ r.segments # <<>>,
                  !.rd = IF r.crashed THEN "crash" ELSE "partial",
                  !.arg = objs, !.result = r.segments]
  /\ UNCHANGED <<g, now, seg_files, accel_file, obs, seen, app>>

\* a key is pressed while the segment settings screen is shown
SegmentKey ==
  /\ \E key \in SegmentKeys :
       LET r == gnss_handle_key(g, app.g_segment_index, key) IN
       /\ g' = r.st
       /\ app' = [app EXCEPT !.g_segment_index = r.index]
       /\ call' = [NoCall("gnss_handle_key") EXCEPT !.arg = <<key>>]
  /\ UNCHANGED <<now, seg_files, accel_file, obs, seen>>

\* Key runs: the segment settings screen stays open
NextKeys == SegmentKey

SpecKeys == InitSeg /\ [][NextKeys]_vars

\* Rate runs: the receiver is opened, started, stopped and closed, and its
\* update rate is set
NextRate ==
  \/ Tick
  \/ GnssInit
  \/ GnssStart
  \/ GnssStop
  \/ GnssDeinit
  \/ SetUpdateRate
  \/ GetPosition
  \/ StartRecording
  \/ StopRecording

SpecRate == Init /\ [][NextRate]_vars

\* Two threads: gnss_thread polls in two steps, the main thread handles keys
\* in between
NextRace ==
  \/ Tick
  \/ PollBegin
  \/ PollEnd
  \/ StartRecording
  \/ StopRecording
  \/ ResetTrip
  \/ EndCurrentSegment

SpecRace == InitSeg /\ [][NextRace]_vars

\* File runs: the receiver is started, segments are closed by hand and the
\* files are loaded again
NextFile ==
  \/ Tick
  \/ GetPositionSeg
  \/ StartRecording
  \/ StopRecording
  \/ EndCurrentSegmentFile
  \/ LoadSegmentData
  \/ LoadDamagedSegmentData

SpecFile == InitSeg /\ [][NextFile]_vars

\* the record of the measurement saved at second t
MeasuredAt(t) ==
  [timestamp |-> t, time_0_30 |-> 3,
   time_0_50 |-> IF t % 2 = 0 THEN 5 ELSE -1,
   max_speed_reached |-> 504, date_time_str |-> FormatMinute(t)]

\* a second later a measurement is saved
SaveAccelerationData ==
  /\ now < T0 + HistInserts
  /\ now' = now + 1
  /\ \E fopen_ok \in BOOLEAN :
       /\ ~fopen_ok => now < T0 + HistEarly
       /\ LET r == gnss_save_acceleration_data(g, accel_file, MeasuredAt(now'),
                                               fopen_ok) IN
          /\ g' = r.st
          /\ accel_file' = r.af
          /\ call' = [NoCall("gnss_save_acceleration_data") EXCEPT
                        !.ret = r.ret, !.fopen_ok = fopen_ok,
                        !.arg = MeasuredAt(now')]
  /\ UNCHANGED <<seg_files, obs, seen, app>>

GetAccelerationHistory ==
  /\ \E read_ok \in BOOLEAN :
       LET r == gnss_get_acceleration_history(g, accel_file, read_ok) IN
       /\ g' = r.st
       /\ call' = [NoCall("gnss_get_acceleration_history") EXCEPT
                     !.rd = r.rd, !.result = r.result]
  /\ UNCHANGED <<now, seg_files, accel_file, obs, seen, app>>

\* the program is started again: its variables are initialised, the card keeps
\* its files
Restart ==
  /\ now < T0 + HistEarly
  /\ g' = InitGlobals
  /\ call' = NoCall("boot")
  /\ obs' = [has_fix |-> FALSE, lat |-> 0, max_speed |-> 0, last_gps_time |-> 0]
  /\ seen' = NoneSeen
  /\ UNCHANGED <<now, seg_files, accel_file, app>>

StartRecordingEarly == now < T0 + HistEarly /\ StartRecording

\* History runs: measurements are saved and read back
NextHist ==
  \/ SaveAccelerationData
  \/ GetAccelerationHistory
  \/ Restart
  \/ StartRecordingEarly
  \/ ResetTrip

SpecHist == Init /\ [][NextHist]_vars

\* Manual runs: the receiver is started, fixes are handed to the measurement
NextMan ==
  \/ TickMan
  \/ GetPositionAcc
  \/ ResetTrip
  \/ StartAccelerationMeasurementMan
  \/ StopAccelerationMeasurementMan
  \/ CheckAccelerationMeasurement

SpecMan == InitAcc /\ [][NextMan]_vars


\* --------------------------------------------------------------- properties
\* a poll that succeeded on a sample the engine classifies as a fix
AcceptedPoll(c) ==
  c.op = "gnss_get_position" /\ c.ret /\ c.built
  /\ c.new_point.fix_type # FIX_NONE

\* the fix quality a successful poll gave its sample (no sample built: None)
Quality(c) == IF c.built THEN c.new_point.fix_type ELSE FIX_NONE

\* the last element of a non-empty sequence
Back(q) == q[Len(q)]

\* C1: whenever gnss_get_position succeeds on a sample whose quality is not
\* None, the engine's previous fix afterwards is the fix that was current
\* before the call, and the current fix is the new sample.
C1_FixRotation ==
  [][AcceptedPoll(call') =>
       /\ g'.g_last_point = g.g_current_point
       /\ g'.g_current_point = call'.new_point]_vars

\* C2, as claimed: fix-mode code 0 gives None, code 1 gives 2D, every code of
\* 2 or more gives 3D.
C2_FixModeTable_Claimed ==
  (call.op = "gnss_get_position" /\ call.ret) =>
    Quality(call) = (IF call.fixmode = 0 THEN FIX_NONE
                     ELSE IF call.fixmode = 1 THEN FIX_2D ELSE FIX_3D)

\* C2, amended: codes 0 and 1 give None, code 2 gives 2D, codes 3 and 4 give
\* 3D, every code of 5 or more gives None.
C2_FixModeTable ==
  (call.op = "gnss_get_position" /\ call.ret) =>
    Quality(call) = (IF call.fixmode \in {0, 1} THEN FIX_NONE
                     ELSE IF call.fixmode = 2 THEN FIX_2D
                     ELSE IF call.fixmode \in {3, 4} THEN FIX_3D
                     ELSE FIX_NONE)

C2_Witness ==
  /\ call.op = "gnss_get_position" /\ call.ret /\ call.built
  /\ call.fixmode = 4 /\ call.new_point.fix_type = FIX_3D

\* C3: a gnss_get_position that finds the device closed or stopped, or whose
\* read fails or comes short, returns false, and a call that returns false
\* leaves every variable of the engine and both files as they were.
C3_FailureLeavesState ==
  [][call'.op = "gnss_get_position" =>
       /\ (g.g_fd < 0 \/ ~g.g_running \/ call'.rd \in {"error", "short"})
            => ~call'.ret
       /\ ~call'.ret =>
            (g' = g /\ seg_files' = seg_files /\ accel_file' = accel_file)]_vars

C3_Witness ==
  /\ call.op = "gnss_get_position" /\ ~call.ret /\ call.rd = "short"
  /\ g.g_recording /\ g.g_trip_data.segments # <<>>
  /\ Cardinality(DOMAIN seg_files) > 0

\* C4: while recording, an accepted fix less than 0.5 m from the previous fix
\* leaves total_distance and the open segment's distance unchanged; one 0.5 m
\* or more away (and below the 500 m limit) adds exactly that distance to both.
C4_NoiseFloor ==
  [][(AcceptedPoll(call') /\ g.g_recording /\ call'.from_prev >= 0) =>
       LET d == call'.from_prev
           t == g.g_trip_data
           u == g'.g_trip_data
           open == t.segments # <<>> /\ Len(u.segments) >= Len(t.segments)
           was == t.segments[Len(t.segments)].distance
           is == u.segments[Len(t.segments)].distance
       IN /\ d < 5 =>
               (u.total_distance = t.total_distance /\ (open => is = was))
          /\ (d >= 5 /\ d < 5000) =>
               (u.total_distance = t.total_distance + d
                /\ (open => is = was + d))]_vars

\* C5: while recording, an accepted fix 500 m or more from the previous fix
\* increases neither total_distance nor the open segment's distance.
C5_OutlierDiscarded ==
  [][(AcceptedPoll(call') /\ g.g_recording /\ call'.from_prev >= 5000) =>
       LET t == g.g_trip_data
           u == g'.g_trip_data
       IN /\ u.total_distance <= t.total_distance
          /\ (t.segments # <<>> /\ Len(u.segments) >= Len(t.segments)) =>
               u.segments[Len(t.segments)].distance
                 <= t.segments[Len(t.segments)].distance]_vars

C5_Witness ==
  /\ AcceptedPoll(call) /\ g.g_recording /\ call.from_prev >= 5000
  /\ g.g_trip_data.segments # <<>>

\* C6: while recording, after every accepted fix max_speed is the greatest
\* speed of the fixes accepted since recording started.
C6_MaxSpeed ==
  (AcceptedPoll(call) /\ g.g_recording) =>
    g.g_trip_data.max_speed = obs.max_speed

\* C7: while recording, after every accepted fix duration is the current time
\* less the trip's start time, and avg_speed is total_distance over duration
\* whenever duration is above 0.
C7_DurationAvgSpeed ==
  (AcceptedPoll(call) /\ g.g_recording /\ g.g_trip_data.start_time > 0) =>
    LET t == g.g_trip_data
    IN /\ t.duration = now - t.start_time
       /\ t.duration > 0 => t.avg_speed = t.total_distance \div t.duration

\* C8: after gnss_reset_trip the trip totals are zero, the segment list is
\* empty with segment_count 0, the 0-100 flag and its arming are cleared, the
\* manual measurement is cleared, and the fix-loss timer and flag are cleared.
C8_ResetClears ==
  call.op = "gnss_reset_trip" =>
    LET t == g.g_trip_data
    IN /\ t.total_distance = 0 /\ t.max_speed = 0 /\ t.avg_speed = 0
       /\ t.duration = 0 /\ t.start_time = 0 /\ t.end_time = 0
       /\ t.max_altitude = 0 /\ t.min_altitude = 0
       /\ t.segments = <<>> /\ t.segment_count = 0
       /\ ~t.has_0_100_time /\ t.time_0_100 = 0
       /\ ~g.g_accel_start /\ g.g_accel_start_time = 0
       /\ ~t.measuring_acceleration /\ ~t.reached_30kmh /\ ~t.reached_50kmh
       /\ g.g_last_gps_time = 0 /\ g.g_last_segment_time = 0
       /\ ~g.g_has_lost_fix

C8_Witness ==
  /\ call.op = "gnss_reset_trip" /\ g.g_recording
  /\ g.g_trip_data.segments = <<>>
  /\ Cardinality(DOMAIN seg_files) > 0

\* C9: gnss_start_recording called while not recording leaves the engine
\* recording with exactly one segment, whose distance, duration and
\* point_count are 0, whose start_time equals its end_time, and whose start
\* position is the current fix's when a valid fix exists and 0/0 otherwise.
C9_StartRecording ==
  [][(call'.op = "gnss_start_recording" /\ ~g.g_recording) =>
       LET segs == g'.g_trip_data.segments
       IN /\ g'.g_recording
          /\ Len(segs) = 1
          /\ segs[1].distance = 0 /\ segs[1].duration = 0
          /\ segs[1].point_count = 0
          /\ segs[1].start_time = segs[1].end_time
          /\ segs[1].start_lat = (IF obs.has_fix THEN obs.lat ELSE 0)
          /\ segs[1].start_lon = 0]_vars

\* C10: while recording with segmenting enabled, a poll that observes the time
\* since the last-GPS-time timer to be at least the configured segment seconds
\* (the custom value under the Custom option, else the preset's) sets the
\* lost-fix flag; once set the flag stays set until the recovery fix or a reset.
C10_FixLossFlag ==
  [][/\ (/\ call'.op = "gnss_get_position" /\ call'.ret
         /\ g.g_recording /\ g.g_segment_settings.enabled
         /\ obs.last_gps_time > 0
         /\ now - obs.last_gps_time >=
              (IF g.g_segment_settings.option = SEGMENT_TIME_CUSTOM
                 THEN g.g_segment_settings.custom_time_sec
                 ELSE g.g_segment_settings.option))
        => g'.g_has_lost_fix
     /\ (/\ g.g_has_lost_fix
         /\ ~AcceptedPoll(call')
         /\ call'.op \notin {"gnss_reset_trip", "gnss_start_recording",
                              "gnss_init", "gnss_start"})
        => g'.g_has_lost_fix]_vars

\* the segment seconds in force: the custom value under the Custom option
ConfiguredSeconds ==
  IF g.g_segment_settings.option = SEGMENT_TIME_CUSTOM
    THEN g.g_segment_settings.custom_time_sec
    ELSE g.g_segment_settings.option

\* no counted fix has come for the configured seconds
GapSeen ==
  /\ g.g_recording /\ g.g_segment_settings.enabled
  /\ obs.last_gps_time > 0
  /\ now - obs.last_gps_time >= ConfiguredSeconds

\* C11: while recording with segmenting enabled, the first accepted fix after
\* valid fixes have been missing for the configured seconds creates exactly one
\* new segment and leaves the lost-fix flag clear; an accepted fix that follows
\* no such gap creates no segment.
C11_FixRecovery ==
  [][(AcceptedPoll(call') /\ g.g_recording /\ g.g_segment_settings.enabled) =>
       LET segs == g.g_trip_data.segments
           segs2 == g'.g_trip_data.segments
           moved == call'.from_prev >= NoiseFloor /\ call'.from_prev < 5000
       IN /\ (GapSeen /\ moved) =>
               (Len(segs2) = Len(segs) + 1 /\ ~g'.g_has_lost_fix)
          /\ (~GapSeen /\ ~g.g_has_lost_fix) => Len(segs2) = Len(segs)]_vars

\* C12: no poll sets the lost-fix flag or adds a segment; in particular, while
\* valid fixes keep arriving, each less than 0.5 m from the one before, the
\* lost-fix flag is never set and no automatic segment is created.
C12_NoLossWhileFixes ==
  [][call'.op = "gnss_get_position" =>
       /\ ~g'.g_has_lost_fix
       /\ g'.g_trip_data.segments = g.g_trip_data.segments]_vars

\* a fix at rest, taken when the recording has lasted the configured seconds
C12_Witness ==
  /\ AcceptedPoll(call) /\ g.g_recording /\ g.g_segment_settings.enabled
  /\ call.from_prev >= 0 /\ call.from_prev < NoiseFloor
  /\ now - g.g_trip_data.start_time >= ConfiguredSeconds
  /\ g.g_trip_data.segments # <<>>

\* the segment create_segment() starts at time t
FreshSegment(s, t) ==
  /\ s.distance = 0 /\ s.duration = 0 /\ s.point_count = 0
  /\ s.start_time = t /\ s.end_time = t

\* C13: gnss_end_current_segment called while recording with a non-empty
\* segment list, the file being writable, stamps the open segment (end_time =
\* now, duration = end_time - start_time, end position = the current fix),
\* writes one snapshot file holding every segment of the trip as of that
\* moment, then appends exactly one fresh segment; earlier segments are
\* unchanged.
C13_ManualClose ==
  [][(/\ call'.op = "gnss_end_current_segment" /\ call'.fopen_ok
      /\ g.g_recording /\ g.g_trip_data.segments # <<>>) =>
       LET segs == g.g_trip_data.segments
           segs2 == g'.g_trip_data.segments
           n == Len(segs)
       IN /\ Len(segs2) = n + 1
          /\ \A i \in 1..(n - 1) : segs2[i] = segs[i]
          /\ segs2[n].end_time = now
          /\ segs2[n].duration = now - segs[n].start_time
          /\ segs2[n].start_time = segs[n].start_time
          /\ segs2[n].distance = segs[n].distance
          /\ obs.has_fix => (segs2[n].end_lat = obs.lat /\ segs2[n].end_lon = 0)
          /\ FreshSegment(segs2[n + 1], now)
          /\ g'.g_trip_data.segment_count = n + 1
          /\ now \in DOMAIN seg_files'
          /\ seg_files'[now].segments = SubSeq(segs2, 1, n)
          /\ \A f \in DOMAIN seg_files' :
               f # now => (f \in DOMAIN seg_files /\ seg_files'[f] = seg_files[f])
  ]_vars

\* C14: gnss_end_current_segment called while not recording, or while the
\* segment list is empty, changes nothing: the segment list, the trip totals
\* and the timers are as before and no file is written.
C14_ManualCloseNoOp ==
  [][(/\ call'.op = "gnss_end_current_segment"
      /\ (~g.g_recording \/ g.g_trip_data.segments = <<>>)) =>
       (g' = g /\ seg_files' = seg_files /\ accel_file' = accel_file)]_vars

\* the call made after a recording was stopped with its segments in place
C14_Witness ==
  /\ call.op = "gnss_end_current_segment" /\ call.fopen_ok
  /\ ~g.g_recording /\ g.g_trip_data.segments # <<>>
  /\ g.g_trip_data.start_time > 0

\* C15: when the snapshot file cannot be written during a manual close, the
\* fresh segment is created all the same, no file appears, recording stays
\* active, and the engine is in the very state a successful close leaves, so
\* later fixes are processed alike.
C15_CloseSurvivesIOError ==
  [][(/\ call'.op = "gnss_end_current_segment" /\ ~call'.fopen_ok
      /\ g.g_recording /\ g.g_trip_data.segments # <<>>) =>
       /\ g'.g_recording
       /\ Len(g'.g_trip_data.segments) = Len(g.g_trip_data.segments) + 1
       /\ FreshSegment(Back(g'.g_trip_data.segments), now)
       /\ seg_files' = seg_files
       /\ g' = gnss_end_current_segment(g, seg_files, now, TRUE).st]_vars

\* a failed close followed by an accepted fix
C15_Witness ==
  /\ AcceptedPoll(call) /\ g.g_recording
  /\ Len(g.g_trip_data.segments) >= 2
  /\ seg_files = EmptyFiles

\* C16: gnss_stop_recording changes the recording flag and nothing else: the
\* segment list, the trip totals and the track are as before, no segment is
\* closed and no file is written.
C16_StopRecordingFrame ==
  [][call'.op = "gnss_stop_recording" =>
       /\ g' = [g EXCEPT !.g_recording = FALSE]
       /\ seg_files' = seg_files /\ accel_file' = accel_file]_vars

\* a recording stopped a minute after its open segment began, none written
C16_Witness ==
  /\ call.op = "gnss_stop_recording" /\ ~g.g_recording
  /\ g.g_trip_data.segments # <<>>
  /\ Back(g.g_trip_data.segments).end_time
       = Back(g.g_trip_data.segments).start_time
  /\ now > Back(g.g_trip_data.segments).start_time
  /\ seg_files = EmptyFiles

\* C17: while recording is not active, no poll changes the trip state: the
\* totals, the segment list, the 0-100 flag and value and the manual
\* acceleration fields stay as they were.
C17_FrozenWhenStopped ==
  [][(call'.op = "gnss_get_position" /\ ~g.g_recording) =>
       g'.g_trip_data = g.g_trip_data]_vars

\* a fix at more than 100 km/h accepted after a recording was stopped
C17_Witness ==
  /\ AcceptedPoll(call) /\ ~g.g_recording
  /\ g.g_trip_data.segments # <<>> /\ g.g_trip_data.start_time > 0
  /\ call.new_point.speed * 36 >= 1000

\* an operation that resets the trip: gnss_reset_trip itself, or one that calls it
ResetsTrip(c) ==
  c.op \in {"gnss_reset_trip", "gnss_start_recording", "gnss_init", "gnss_start"}

C19_LatchOnHundred ==
  [][(/\ AcceptedPoll(call') /\ g.g_recording
      /\ call'.new_point.speed * 36 >= 1000
      /\ seen.slow_at >= 0 /\ seen.fast_at < 0) =>
       /\ g'.g_trip_data.has_0_100_time
       /\ g'.g_trip_data.time_0_100 = now - seen.slow_at]_vars

\* C20: gnss_start_acceleration_measurement arms the manual measurement when a
\* valid fix has been accepted and none is armed (start time = now, reached-30
\* and reached-50 cleared, both times -1); with no fix, or one armed already,
\* the call changes nothing.
C20_ManualArm ==
  [][call'.op = "gnss_start_acceleration_measurement" =>
       LET t == g.g_trip_data
           u == g'.g_trip_data
       IN /\ (obs.has_fix /\ ~t.measuring_acceleration) =>
               /\ u.measuring_acceleration
               /\ u.acceleration_start_time = now
               /\ ~u.reached_30kmh /\ ~u.reached_50kmh
               /\ u.time_0_30 = -1 /\ u.time_0_50 = -1
          /\ (~obs.has_fix \/ t.measuring_acceleration) => g' = g]_vars

\* a manual measurement is running as far as the caller can tell: it was asked
\* for with a fix delivered and has met no stop, no 50 km/h and no time-out
ManualAsked == seen.man_at >= 0

\* C21: while a manual measurement runs, time_0_30 is -1 until a fix at
\* 30 km/h or more has been handed in, and time_0_50 is -1 until one at
\* 50 km/h or more has; a threshold never met keeps -1 to the end.
C21_SentinelsKept ==
  ManualAsked =>
    /\ (~seen.r30 => g.g_trip_data.time_0_30 = -1)
    /\ (~seen.r50 => g.g_trip_data.time_0_50 = -1)

\* a fix handed in more than 60 s after the measurement was asked for
TimedOut(c) ==
  /\ c.op = "gnss_check_acceleration_measurement"
  /\ c.new_point.fix_type # FIX_NONE
  /\ ManualAsked /\ now - seen.man_at > 60

C23_FiftyEnds ==
  [][(/\ call'.op = "gnss_check_acceleration_measurement"
      /\ call'.new_point.fix_type # FIX_NONE /\ call'.fopen_ok
      /\ call'.new_point.speed * 36 >= 500
      /\ ManualAsked /\ ~seen.r50 /\ now - seen.man_at <= 60) =>
       LET h == g.g_acceleration_history
           h2 == g'.g_acceleration_history
       IN /\ ~g'.g_trip_data.measuring_acceleration
          /\ g'.g_trip_data.time_0_50 = now - seen.man_at
          /\ Len(h2) = Len(h) + 1
          /\ h2[1].time_0_50 = now - seen.man_at
          /\ h2[1].time_0_30 = seen'.m30
          /\ SubSeq(h2, 2, Len(h2)) = h]_vars

\* C24: after any insertions and loads the history holds at most 50 records;
\* an insertion into a history of 50 drops the record at the tail, keeps the
\* other 49 in their order and puts the new record at index 0.
C24_HistoryBound ==
  [][LET h == g.g_acceleration_history
         h2 == g'.g_acceleration_history
     IN /\ Len(h2) <= HistoryCap
        /\ (call'.op = "gnss_save_acceleration_data" /\ Len(h) = HistoryCap) =>
             h2 = <<call'.arg>> \o SubSeq(h, 1, HistoryCap - 1)]_vars

\* the second insertion into a full history has been made
C24_Witness ==
  /\ call.op = "gnss_save_acceleration_data"
  /\ Len(g.g_acceleration_history) = HistoryCap
  /\ g.g_acceleration_history[1].timestamp = T0 + HistInserts
  /\ g.g_acceleration_history[HistoryCap].timestamp = T0 + 3

\* C25: gnss_get_acceleration_history returns the history in memory as it is,
\* without opening the file, whenever that history is not empty; when it is
\* empty and the file is missing, the result is empty and nothing changes.
C25_GetHistory ==
  [][call'.op = "gnss_get_acceleration_history" =>
       LET h == g.g_acceleration_history
       IN /\ h # <<>> =>
               (call'.result = h /\ call'.rd = "none" /\ g' = g)
          /\ (h = <<>> /\ ~accel_file.exists) =>
               (call'.result = <<>> /\ g' = g)
          /\ accel_file' = accel_file]_vars

\* a read of a history in memory that the file does not hold
C25_Witness ==
  /\ call.op = "gnss_get_acceleration_history"
  /\ call.rd = "none" /\ Len(call.result) >= 2
  /\ ~accel_file.exists

\* C26: gnss_reset_trip and gnss_start_recording leave the acceleration
\* history in memory and the acceleration file as they are.
C26_HistoryFrame ==
  [][call'.op \in {"gnss_reset_trip", "gnss_start_recording"} =>
       /\ g'.g_acceleration_history = g.g_acceleration_history
       /\ accel_file' = accel_file]_vars

\* a recording started with records in memory and in the file
C26_Witness ==
  /\ call.op = "gnss_start_recording" /\ g.g_recording
  /\ g.g_acceleration_history # <<>> /\ accel_file.exists

\* C27: a segment list saved by gnss_save_segment_data_to_json and loaded
\* again by gnss_load_segment_data_from_file comes back with as many segments
\* in the same order, and every numeric field (distance, avg_speed,
\* moving_avg_speed, duration, moving_time, idle_time, start and end latitude
\* and longitude) equal to the value saved; only start_time differs.
C27_RoundTrip ==
  [][(call'.op = "gnss_load_segment_data_from_file" /\ call'.rd = "ok") =>
       LET saved == call'.arg
           got == call'.result
       IN /\ Len(got) = Len(saved)
          /\ \A i \in 1..Len(saved) :
               /\ got[i].distance = saved[i].distance
               /\ got[i].avg_speed = saved[i].avg_speed
               /\ got[i].moving_avg_speed = saved[i].moving_avg_speed
               /\ got[i].duration = saved[i].duration
               /\ got[i].moving_time = saved[i].moving_time
               /\ got[i].idle_time = saved[i].idle_time
               /\ got[i].start_lat = saved[i].start_lat
               /\ got[i].start_lon = saved[i].start_lon
               /\ got[i].end_lat = saved[i].end_lat
               /\ got[i].end_lon = saved[i].end_lon]_vars

\* the thread an operation runs on: gnss_thread opens, starts, polls, stops
\* and closes the receiver, the main thread handles the keys
ThreadOf(op) ==
  IF op \in {"gnss_init", "gnss_start", "gnss_get_position", "gnss_stop",
             "gnss_deinit"}
    THEN "gnss_thread" ELSE "spresense_main"

\* C28: whenever the polling thread or the key-handling thread changes the
\* engine's state (trip totals, segment list, acceleration state, history),
\* the thread that makes the change holds the one engine-wide mutex.
C28_MutationsLocked ==
  [][g' # g => app.g_mutex = ThreadOf(call'.op)]_vars

\* C30: gnss_start_recording empties the track; from then on every valid fix
\* accepted while recording is appended to it once, in the order of arrival,
\* whatever its distance from the fix before; a fix accepted while not
\* recording is never appended.
C30_TrackAppended ==
  [][/\ (call'.op = "gnss_start_recording" /\ ~g.g_recording) =>
          g'.g_track_points = <<>>
     /\ (AcceptedPoll(call') /\ g.g_recording) =>
          g'.g_track_points = Append(g.g_track_points, call'.new_point)
     /\ (AcceptedPoll(call') /\ ~g.g_recording) =>
          g'.g_track_points = g.g_track_points]_vars

\* C31: loading a malformed segment or history file never ends in a hard
\* failure: the loader returns the well-formed leading objects (or none), also
\* when a field name is there and its quoted value or closing quote is not.
C31_NoHardFailure ==
  [][call'.op = "gnss_load_segment_data_from_file" =>
       /\ call'.rd # "crash"
       /\ Len(call'.result) <= Len(call'.arg)]_vars

\* C32: while recording, fix processing, automatic segmentation and manual
\* close change no field of a segment that is not the last of the list: every
\* segment before the last is the same after the operation.
C32_OnlyLastModified ==
  [][(/\ g.g_recording
      /\ call'.op \in {"gnss_get_position", "gnss_end_current_segment"}) =>
       LET segs == g.g_trip_data.segments
           segs2 == g'.g_trip_data.segments
       IN /\ Len(segs2) >= Len(segs)
          /\ \A i \in 1..(Len(segs) - 1) : segs2[i] = segs[i]]_vars

\* a manual close of a list of two segments, the first closed a while before
C32_Witness ==
  /\ call.op = "gnss_end_current_segment" /\ g.g_recording
  /\ Len(g.g_trip_data.segments) = 3
  /\ g.g_trip_data.segments[1].end_time < g.g_trip_data.segments[2].end_time

\* C33: in every state reached by starting and stopping a recording,
\* resetting, processing fixes and closing by hand, segment_count is the
\* length of the segment list, and gnss_get_segment_data(i) returns a segment
\* exactly when i is below that count.
C33_SegmentCount ==
  /\ g.g_trip_data.segment_count = Len(g.g_trip_data.segments)
  /\ \A i \in 0..(MaxSegments + 2) :
       gnss_get_segment_data(g, i).found <=> i < g.g_trip_data.segment_count

\* two segments counted after a manual close
C33_Witness ==
  /\ call.op = "gnss_end_current_segment"
  /\ g.g_trip_data.segment_count = 2 /\ Len(g.g_trip_data.segments) = 2

\* C34: a running manual measurement is checked on every accepted fix, so
\* that with fixes arriving and the clock advancing it comes to its end: an
\* accepted fix at 50 km/h or more marks 50 km/h as reached, an accepted fix
\* more than 60 s after the start finds the 60 s passed, and either leaves
\* nothing running.
C34_CheckedOnEachFix ==
  [][(AcceptedPoll(call') /\ ManualAsked) =>
       /\ (call'.new_point.speed * 36 >= 500 /\ now - seen.man_at <= 60) =>
            (g'.g_trip_data.reached_50kmh
             /\ g'.g_trip_data.time_0_50 = now - seen.man_at)
       /\ (call'.new_point.speed * 36 >= 500 \/ now - seen.man_at > 60) =>
            ~g'.g_trip_data.measuring_acceleration]_vars

\* C35: gnss_stop_acceleration_measurement adds a record to the history only
\* when it is called with save = true while a measurement is armed and
\* 30 km/h or 50 km/h was reached; otherwise the history and the file are as
\* before. In every case no measurement is armed afterwards.
C35_StopSavesOnlyReached ==
  [][call'.op = "gnss_stop_acceleration_measurement" =>
       LET t == g.g_trip_data
           may == /\ call'.arg = <<TRUE>> /\ t.measuring_acceleration
                  /\ (t.reached_30kmh \/ t.reached_50kmh)
       IN /\ ~g'.g_trip_data.measuring_acceleration
          /\ ~may => /\ g'.g_acceleration_history = g.g_acceleration_history
                     /\ accel_file' = accel_file]_vars

\* a stop with save = true of a measurement that was handed a fix over 30 km/h
C35_Witness ==
  /\ call.op = "gnss_stop_acceleration_measurement" /\ call.arg = <<TRUE>>
  /\ seen.ended = "stop" /\ seen.r30

\* C36: in every reachable state where a recording is running the segment list
\* is not empty, under any interleaving of gnss_start_recording,
\* gnss_reset_trip, gnss_end_current_segment and fix processing.
C36_RecordingHasSegment ==
  g.g_recording => g.g_trip_data.segments # <<>>

C38_SaveKeepsPersisted ==
  [][(call'.op = "gnss_save_acceleration_data" /\ call'.ret) =>
       LET old == IF accel_file.exists THEN accel_file.records ELSE <<>>
           new == accel_file'.records
           n == IF Len(old) >= HistoryCap THEN HistoryCap - 1 ELSE Len(old)
       IN /\ new # <<>> /\ new[1] = AccelText(call'.arg)
          /\ \A i \in 1..n : \E j \in 2..Len(new) : new[j] = old[i]]_vars

\* C39: gnss_set_update_rate leaves the receiver running when it was running
\* and stopped when it was stopped, also when the operating mode cannot be
\* set and the call returns false.
C39_RunningPreserved ==
  [][call'.op = "gnss_set_update_rate" => g'.g_running = g.g_running]_vars

\* C40: whatever keys are pressed on the segment settings screen, the stored
\* segment time option is one of the presets of 60, 300, 600 and 1800 seconds
\* or the custom option.
C40_OptionIsPreset ==
  g.g_segment_settings.option \in
    {SEGMENT_TIME_1MIN, SEGMENT_TIME_5MIN, SEGMENT_TIME_10MIN,
     SEGMENT_TIME_30MIN, SEGMENT_TIME_CUSTOM}

====
